---- MODULE Spec2Model ----
(***************************************************************************)
(* Model of the smart file organiser (src/src/lib.rs): organize,           *)
(* collect_files, is_hidden_or_junk, resolve_collision, move_file and      *)
(* Config::categorize, over an explicit directory tree.                    *)
(*                                                                         *)
(* A file name is a sequence of one-character strings, a path is a         *)
(* sequence of names relative to the root being organised (<<>> is the     *)
(* root itself), and the filesystem is a function from the existing paths  *)
(* to their nodes.                                                         *)
(***************************************************************************)
EXTENDS Integers, Sequences, FiniteSets, TLC

\* ------------------------------------------------------------------ bounds
MaxFiles == 3      \* regular files in the initial tree
MaxFaults == 1     \* steps of one run in which an I/O operation fails

\* -------------------------------------------------------------- characters
\* Two letters outside ASCII, each standing for one character of a name.
EAcuteUpper == "U+00C9"
EAcuteLower == "U+00E9"

\* The characters that occur in names, in byte order.
Alphabet ==
  << "-", ".", "0", "1", "2", "3", "4", "5", "6", "7", "8", "9",
     "A", "B", "C", "D", "E", "F", "G", "H", "I", "J", "K", "L", "M",
     "N", "O", "P", "Q", "R", "S", "T", "U", "V", "W", "X", "Y", "Z", "_",
     "a", "b", "c", "d", "e", "f", "g", "h", "i", "j", "k", "l", "m",
     "n", "o", "p", "q", "r", "s", "t", "u", "v", "w", "x", "y", "z",
     EAcuteUpper, EAcuteLower >>

Chars == {Alphabet[k] : k \in 1..Len(Alphabet)}

\* Position of each character in the alphabet.
RankTable == [c \in Chars |-> CHOOSE k \in 1..Len(Alphabet) : Alphabet[k] = c]
CharRank(c) == RankTable[c]

\* u8::to_ascii_lowercase: 'A'..'Z' become 'a'..'z', the rest is unchanged.
LowerOf ==
  [A |-> "a", B |-> "b", C |-> "c", D |-> "d", E |-> "e", F |-> "f", G |-> "g",
   H |-> "h", I |-> "i", J |-> "j", K |-> "k", L |-> "l", M |-> "m", N |-> "n",
   O |-> "o", P |-> "p", Q |-> "q", R |-> "r", S |-> "s", T |-> "t", U |-> "u",
   V |-> "v", W |-> "w", X |-> "x", Y |-> "y", Z |-> "z"]
Uppers == DOMAIN LowerOf
LowerChar(c) == IF c \in Uppers THEN LowerOf[c] ELSE c

\* str::to_lowercase on ASCII text.
ToLower(s) == [i \in 1..Len(s) |-> LowerChar(s[i])]

EqIgnoreAsciiCase_Exact(a, b) == a = b

\* str::eq_ignore_ascii_case
EqIgnoreAsciiCase(a, b) ==
  /\ Len(a) = Len(b)
  /\ \A k \in 1..Len(a) : LowerChar(a[k]) = LowerChar(b[k])

\* Ordering of names by bytes, used to fix a directory listing order.
RECURSIVE NameLess(_, _)
NameLess(a, b) ==
  IF a = <<>> THEN b # <<>>
  ELSE IF b = <<>> THEN FALSE
  ELSE IF a[1] # b[1] THEN CharRank(a[1]) < CharRank(b[1])
  ELSE NameLess(Tail(a), Tail(b))

\* ------------------------------------------------------------------- names
\* Index of the last '.' of a name, 0 when there is none.
LastDot(name) ==
  LET dots == {i \in 1..Len(name) : name[i] = "."}
  IN IF dots = {} THEN 0 ELSE CHOOSE i \in dots : \A j \in dots : j <= i

NoExt == <<"<none>">>

\* Path::extension of a file name: the part after the last '.', none when
\* there is no '.' or the only '.' is the first character.
Extension(name) ==
  LET d == LastDot(name)
  IN IF d <= 1 THEN NoExt ELSE SubSeq(name, d + 1, Len(name))

\* Path::file_stem of a file name.
FileStem(name) ==
  LET d == LastDot(name)
  IN IF d <= 1 THEN name ELSE SubSeq(name, 1, d - 1)

StartsWithDot(name) == Len(name) > 0 /\ name[1] = "."

ThumbsDb == <<"T","h","u","m","b","s",".","d","b">>
DesktopIni == <<"d","e","s","k","t","o","p",".","i","n","i">>
OrganizerLog == <<"o","r","g","a","n","i","z","e","r","_","l","o","g",".","t","x","t">>

is_hidden_or_junk_WithoutLog(path) ==
  IF path = <<>> THEN TRUE
  ELSE LET name == path[Len(path)]
       IN \/ StartsWithDot(name)
          \/ name = ThumbsDb
          \/ name = DesktopIni

\* is_hidden_or_junk, on the file name of a path.
is_hidden_or_junk(path) ==
  IF path = <<>> THEN TRUE
  ELSE LET name == path[Len(path)]
       IN \/ StartsWithDot(name)
          \/ name = ThumbsDb
          \/ name = DesktopIni
          \/ name = OrganizerLog

\* ------------------------------------------------------------ configuration
Images == <<"I","m","a","g","e","s">>
Documents == <<"D","o","c","u","m","e","n","t","s">>
Videos == <<"V","i","d","e","o","s">>
Music == <<"M","u","s","i","c">>
Archives == <<"A","r","c","h","i","v","e","s">>

\* Config::default: the categories map, as the sequence of its entries in the
\* order the map iterates them.
DefaultConfig ==
  << [name |-> Images,
      exts |-> << <<"j","p","g">>,
                  <<"j","p","e","g">>,
                  <<"p","n","g">>,
                  <<"g","i","f">>,
                  <<"b","m","p">>,
                  <<"w","e","b","p">>,
                  <<"s","v","g">> >>],
     [name |-> Documents,
      exts |-> << <<"p","d","f">>,
                  <<"d","o","c">>,
                  <<"d","o","c","x">>,
                  <<"t","x","t">>,
                  <<"r","t","f">>,
                  <<"o","d","t">>,
                  <<"x","l","s","x">>,
                  <<"c","s","v">> >>],
     [name |-> Videos,
      exts |-> << <<"m","p","4">>,
                  <<"m","k","v">>,
                  <<"m","o","v">>,
                  <<"a","v","i">>,
                  <<"w","e","b","m">> >>],
     [name |-> Music,
      exts |-> << <<"m","p","3">>,
                  <<"w","a","v">>,
                  <<"f","l","a","c">>,
                  <<"a","a","c">>,
                  <<"o","g","g">> >>],
     [name |-> Archives,
      exts |-> << <<"z","i","p">>,
                  <<"r","a","r">>,
                  <<"7","z">>,
                  <<"t","a","r">>,
                  <<"g","z">> >>] >>

\* A configuration read from config.toml: Photos = ["JPG", "png"],
\* Texts = ["txt", "md", "jpg", "r\u00e9"], in either iteration order of the map.
Photos == <<"P","h","o","t","o","s">>
Texts == <<"T","e","x","t","s">>
CustomConfig ==
  << [name |-> Photos,
      exts |-> << <<"J","P","G">>,
                  <<"p","n","g">> >>],
     [name |-> Texts,
      exts |-> << <<"t","x","t">>,
                  <<"m","d">>,
                  <<"j","p","g">>,
                  <<"r", EAcuteLower>> >>] >>
CustomConfigReordered == <<CustomConfig[2], CustomConfig[1]>>

\* The configurations a run of organize is given, the configurations
\* categorize is asked on, and the categories map of each.
Configs == {"default"}
LoadedConfigs == {"default", "custom", "custom reordered"}
Categories(cfg) ==
  IF cfg = "custom" THEN CustomConfig
  ELSE IF cfg = "custom reordered" THEN CustomConfigReordered
  ELSE DefaultConfig

NoCategory == <<"<no match>">>

\* Config::categorize: the first category, in the map's iteration order, one
\* of whose extensions equals the given one up to ASCII case.
RECURSIVE CategorizeFrom(_, _, _)
CategorizeFrom(categories, extension, k) ==
  IF k > Len(categories) THEN NoCategory
  ELSE IF \E j \in 1..Len(categories[k].exts) :
            EqIgnoreAsciiCase(categories[k].exts[j], extension)
    THEN categories[k].name
  ELSE CategorizeFrom(categories, extension, k + 1)

categorize(categories, extension) == CategorizeFrom(categories, extension, 1)

\* config.categories.keys()
CategoryNames(categories) == {categories[k].name : k \in 1..Len(categories)}

\* -------------------------------------------------------------- filesystem
Root == <<>>

Parent(p) == SubSeq(p, 1, Len(p) - 1)
FileName(p) == p[Len(p)]
IsPrefix(d, p) == Len(d) <= Len(p) /\ SubSeq(p, 1, Len(d)) = d

DirNode == [kind |-> "dir"]

\* Path::exists and Path::is_dir
Exists(fs, p) == p \in DOMAIN fs
IsDir(fs, p) == p \in DOMAIN fs /\ fs[p].kind = "dir"
IsFile(fs, p) == p \in DOMAIN fs /\ fs[p].kind = "file"

Children(fs, dir) == {p \in DOMAIN fs : Len(p) = Len(dir) + 1 /\ IsPrefix(dir, p)}

\* The filesystem with node n at path p (created or replaced).
WithNode(fs, p, n) == [q \in DOMAIN fs \cup {p} |-> IF q = p THEN n ELSE fs[q]]

\* The filesystem without path p.
WithoutNode(fs, p) == [q \in DOMAIN fs \ {p} |-> fs[q]]

\* fs::read_dir: the entries of a directory; the listing order is the host's
\* choice, here ascending or descending by name.
RECURSIVE Listing(_, _)
Listing(S, rev) ==
  IF S = {} THEN <<>>
  ELSE LET m == CHOOSE x \in S : \A y \in S \ {x} :
                  IF rev THEN NameLess(FileName(y), FileName(x))
                         ELSE NameLess(FileName(x), FileName(y))
       IN <<m>> \o Listing(S \ {m}, rev)

read_dir(fs, dir, rev) == Listing(Children(fs, dir), rev)

\* collect_files: the recursive walk, skipping entries whose name starts with
\* '.' and directories whose name is in skip.
RECURSIVE collect_files(_, _, _, _)
RECURSIVE CollectEntries(_, _, _, _)
CollectEntries_SkipsByNameOnly(fs, entries, skip, rev) ==
  IF entries = <<>> THEN <<>>
  ELSE LET path == Head(entries)
           name == FileName(path)
           here == IF StartsWithDot(name) \/ name \in skip
                     THEN <<>>
                   ELSE IF IsDir(fs, path)
                     THEN collect_files(fs, path, skip, rev)
                   ELSE <<path>>
       IN here \o CollectEntries(fs, Tail(entries), skip, rev)

CollectEntries_EntersCategoryFolders(fs, entries, skip, rev) ==
  IF entries = <<>> THEN <<>>
  ELSE LET path == Head(entries)
           name == FileName(path)
           here == IF StartsWithDot(name)
                     THEN <<>>
                   ELSE IF IsDir(fs, path)
                     THEN collect_files(fs, path, skip, rev)
                   ELSE <<path>>
       IN here \o CollectEntries(fs, Tail(entries), skip, rev)

CollectEntries(fs, entries, skip, rev) ==
  IF entries = <<>> THEN <<>>
  ELSE LET path == Head(entries)
           name == FileName(path)
           here == IF StartsWithDot(name) \/ (IsDir(fs, path) /\ name \in skip)
                     THEN <<>>
                   ELSE IF IsDir(fs, path)
                     THEN collect_files(fs, path, skip, rev)
                   ELSE <<path>>
       IN here \o CollectEntries(fs, Tail(entries), skip, rev)

collect_files(fs, dir, skip, rev) ==
  CollectEntries(fs, read_dir(fs, dir, rev), skip, rev)

\* ------------------------------------------------------ collision resolver
\* Local::now().format("%Y-%m-%d"): the run's calendar day.
Today == <<"2","0","2","6","-","0","2","-","1","2">>

DigitChar(d) == Alphabet[CharRank("0") + d]

\* Decimal formatting of a positive integer, as format!("{n}") does.
RECURSIVE Decimal(_)
Decimal(n) ==
  IF n < 10 THEN <<DigitChar(n)>>
  ELSE Decimal(n \div 10) \o <<DigitChar(n % 10)>>

DatedName(stem, ext) == stem \o <<"_">> \o Today \o <<".">> \o ext
VersionedName(stem, ext, n) ==
  stem \o <<"_">> \o Today \o <<"_", "v">> \o Decimal(n) \o <<".">> \o ext

\* The loop of resolve_collision: the first version number from n on whose
\* path does not exist.
RECURSIVE FirstFreeVersion(_, _, _, _, _)
FirstFreeVersion(fs, dir, stem, ext, n) ==
  LET versioned == Append(dir, VersionedName(stem, ext, n))
  IN IF ~Exists(fs, versioned) THEN versioned
     ELSE FirstFreeVersion(fs, dir, stem, ext, n + 1)

resolve_collision_Unchecked(fs, dir, original_name, ext) == Append(dir, original_name)

resolve_collision_FromV1(fs, dir, original_name, ext) ==
  LET candidate == Append(dir, original_name)
      stem == FileStem(original_name)
      dated == Append(dir, DatedName(stem, ext))
  IN IF ~Exists(fs, candidate) THEN candidate
     ELSE IF ~Exists(fs, dated) THEN dated
     ELSE FirstFreeVersion(fs, dir, stem, ext, 1)

resolve_collision(fs, dir, original_name, ext) ==
  LET candidate == Append(dir, original_name)
      stem == FileStem(original_name)
      dated == Append(dir, DatedName(stem, ext))
  IN IF ~Exists(fs, candidate) THEN candidate
     ELSE IF ~Exists(fs, dated) THEN dated
     ELSE FirstFreeVersion(fs, dir, stem, ext, 2)

\* ---------------------------------------------------- create_dir_all, moves
\* The non-empty prefixes of a path.
Prefixes(p) == {SubSeq(p, 1, k) : k \in 1..Len(p)}

\* fs::create_dir_all can succeed only when no prefix of the path is a file.
CanCreateDirAll(fs, dir) == \A q \in Prefixes(dir) : ~IsFile(fs, q)

\* fs::create_dir_all: every missing prefix becomes a directory.
create_dir_all(fs, dir) ==
  [q \in DOMAIN fs \cup Prefixes(dir) |-> IF q \in DOMAIN fs THEN fs[q] ELSE DirNode]

\* A file can be brought to path to (by rename or by copy) only when
\* it exists, the parent of to is a directory and to is not a directory.
CanPlace(fs, from, to) ==
  IsFile(fs, from) /\ IsDir(fs, Parent(to)) /\ ~IsDir(fs, to)

\* fs::rename: the node leaves from and replaces whatever is at to.
rename(fs, from, to) == WithoutNode(WithNode(fs, to, fs[from]), from)

\* The day a file written now gets as its modification day.
DayNow == 2

\* fs::copy: to gets the content and size of from and a fresh modification time.
copy(fs, from, to) == WithNode(fs, to, [fs[from] EXCEPT !.day = DayNow])

\* fs::copy interrupted after it created to: a truncated file is left behind.
Truncated == [kind |-> "file", data |-> <<"truncated">>, size |-> 0, day |-> DayNow]
copy_interrupted(fs, to) == WithNode(fs, to, Truncated)

\* fs::remove_file
remove_file(fs, from) == WithoutNode(fs, from)

\* ------------------------------------------------------------ initial trees
Sub == <<"s","u","b">>
Deep == <<"d","e","e","p">>
DotGit == <<".","g","i","t">>
AJpg == <<"a",".","j","p","g">>
BPdf == <<"b",".","P","D","F">>
CXyz == <<"c",".","x","y","z">>
DotXJpg == <<".","x",".","j","p","g">>

\* The files the tree of a run is drawn from: path, size in bytes and
\* modification day. They are the files the loop of organize can meet or
\* collide with.
Candidates ==
  { [path |-> <<AJpg>>, size |-> 1, day |-> 1],
    [path |-> <<Sub, AJpg>>, size |-> 1, day |-> 1],
    [path |-> <<Sub, Deep, AJpg>>, size |-> 2, day |-> 1],
    [path |-> <<BPdf>>, size |-> 1, day |-> 1],
    [path |-> <<Sub, BPdf>>, size |-> 1, day |-> 2],
    [path |-> <<CXyz>>, size |-> 1, day |-> 1],
    [path |-> <<Sub, CXyz>>, size |-> 1, day |-> 1],
    [path |-> <<OrganizerLog>>, size |-> 1, day |-> 1],
    [path |-> <<Images, AJpg>>, size |-> 2, day |-> 1],
    [path |-> <<Images>>, size |-> 1, day |-> 1],
    [path |-> <<Sub, Images>>, size |-> 1, day |-> 1] }

\* The files the tree of a walk is drawn from: as above, with hidden files
\* and directories, junk and category-named entries at several depths.
WalkCandidates ==
  { [path |-> <<AJpg>>, size |-> 1, day |-> 1],
    [path |-> <<Sub, AJpg>>, size |-> 1, day |-> 1],
    [path |-> <<Sub, Deep, AJpg>>, size |-> 2, day |-> 1],
    [path |-> <<DotXJpg>>, size |-> 1, day |-> 1],
    [path |-> <<Sub, DotXJpg>>, size |-> 1, day |-> 1],
    [path |-> <<DotGit, AJpg>>, size |-> 1, day |-> 1],
    [path |-> <<Sub, DotGit, AJpg>>, size |-> 1, day |-> 1],
    [path |-> <<OrganizerLog>>, size |-> 1, day |-> 1],
    [path |-> <<Sub, ThumbsDb>>, size |-> 1, day |-> 1],
    [path |-> <<Images, AJpg>>, size |-> 2, day |-> 1],
    [path |-> <<Images, Sub, AJpg>>, size |-> 2, day |-> 1],
    [path |-> <<Sub, Images, AJpg>>, size |-> 1, day |-> 1],
    [path |-> <<Images>>, size |-> 1, day |-> 1],
    [path |-> <<Sub, Images>>, size |-> 1, day |-> 1] }

\* A set of candidate files forms a tree when no file lies under another file.
WellFormed(S) ==
  \A c \in S : \A d \in S : c # d => ~IsPrefix(c.path, d.path)

\* The tree holding exactly the files of S, each with its own path as content.
TreeOf(S) ==
  LET filePaths == {c.path : c \in S}
      dirs == {Root} \cup UNION {Prefixes(Parent(c.path)) : c \in S}
      fileAt(p) == CHOOSE c \in S : c.path = p
  IN [p \in dirs \cup filePaths |->
        IF p \in filePaths
          THEN [kind |-> "file", data |-> p,
                size |-> fileAt(p).size, day |-> fileAt(p).day]
          ELSE DirNode]

TreesFrom(pool) ==
  {TreeOf(S) : S \in {T \in SUBSET pool : Cardinality(T) <= MaxFiles /\ WellFormed(T)}}

InitialTrees == TreesFrom(Candidates)
WalkTrees == TreesFrom(WalkCandidates)

\* -------------------------------------------------------------------- state
VARIABLES
  tree,       \* the directory tree under the root being organised
  tree0,      \* the tree as it was when organize was called
  opts,       \* OrganizeOpts: dry_run, find_duplicates, keep_structure
  config,     \* which Config organize was given
  rev,        \* the host's directory listing order
  pc,         \* position of organize: start, log, loop, done, aborted
  files,      \* the paths collect_files returned
  i,          \* index in files of the file the loop handles next
  stats,      \* Stats: moved, duplicates, skipped, errors
  seen,       \* fingerprint -> path of the first file that had it
  log,        \* the Option<File> handle: "None" or "Some"
  log_file,   \* the lines of organizer_log.txt
  outcomes,   \* how the loop left each file it handled, in order
  faults,     \* the I/O operations that failed, one per step hit by a failure
  result,     \* what organize returned
  extension,  \* the extension a caller asks categorize about
  answer,     \* what categorize returned to that caller
  previous    \* what the run of organize before this one returned

\* The state of a direct call of categorize.
asked == <<extension, answer>>

vars == <<tree, tree0, opts, config, rev, pc, files, i, stats, seen, log,
          log_file, outcomes, faults, result, extension, answer, previous>>

ZeroStats == [moved |-> 0, duplicates |-> 0, skipped |-> 0, errors |-> 0]
EmptyMap == [k \in {} |-> <<>>]
PriorLog == <<[kind |-> "earlier"]>>
Running == [tag |-> "none"]
Err(e) == [tag |-> "Err", e |-> e]
Ok(st) == [tag |-> "Ok", stats |-> st]

\* Nobody has asked categorize directly.
NotAsked == <<"<not asked>">>

\* organize has been called and has not run yet.
Called ==
  /\ tree0 = tree
  /\ config \in Configs
  /\ extension = <<>>
  /\ answer = NotAsked
  /\ previous = Running
  /\ rev \in BOOLEAN
  /\ pc = "start"
  /\ files = <<>>
  /\ i = 1
  /\ stats = ZeroStats
  /\ seen = EmptyMap
  /\ log = "None"
  /\ log_file = PriorLog
  /\ outcomes = <<>>
  /\ faults = <<>>
  /\ result = Running

Init ==
  /\ tree \in InitialTrees
  /\ opts \in [dry_run : BOOLEAN, find_duplicates : BOOLEAN, keep_structure : BOOLEAN]
  /\ Called

CanFault == Len(faults) < MaxFaults

\* ------------------------------------------------------- organize: set-up
\* let files = collect_files(base, &category_names)?; the early return when
\* nothing was found.
CollectFiles ==
  /\ pc = "start"
  /\ LET found == collect_files(tree, Root, CategoryNames(Categories(config)), rev)
     IN /\ files' = found
        /\ IF found = <<>>
             THEN pc' = "done" /\ result' = Ok(ZeroStats)
             ELSE pc' = "log" /\ result' = result
  /\ UNCHANGED <<asked, previous, tree, tree0, opts, config, rev, i, stats, seen, log, log_file,
                 outcomes, faults>>

\* fs::read_dir or one of its entries fails: the ? returns the error.
ReadDirFails ==
  /\ pc = "start"
  /\ CanFault
  /\ faults' = Append(faults, "read_dir")
  /\ pc' = "aborted"
  /\ result' = Err("read_dir")
  /\ UNCHANGED <<asked, previous, tree, tree0, opts, config, rev, files, i, stats, seen, log,
                 log_file, outcomes>>

Header == [kind |-> "header", directory |-> Root, dry_run |-> opts.dry_run]

OpenLog_EvenInDryRun ==
  /\ pc = "log"
  /\ log' = "Some" /\ log_file' = Append(log_file, Header)
  /\ stats' = ZeroStats
  /\ seen' = EmptyMap
  /\ i' = 1
  /\ pc' = "loop"
  /\ UNCHANGED <<asked, previous, tree, tree0, opts, config, rev, files, outcomes, faults, result>>

OpenLog_Truncating ==
  /\ pc = "log"
  /\ IF ~opts.dry_run
       THEN log' = "Some" /\ log_file' = <<Header>>
       ELSE log' = "None" /\ log_file' = log_file
  /\ stats' = ZeroStats
  /\ seen' = EmptyMap
  /\ i' = 1
  /\ pc' = "loop"
  /\ UNCHANGED <<asked, previous, tree, tree0, opts, config, rev, files, outcomes, faults, result>>

\* The log is opened for appending and the header written, unless dry_run;
\* then the counters and the seen map are set up.
OpenLog ==
  /\ pc = "log"
  /\ IF ~opts.dry_run
       THEN log' = "Some" /\ log_file' = Append(log_file, Header)
       ELSE log' = "None" /\ log_file' = log_file
  /\ stats' = ZeroStats
  /\ seen' = EmptyMap
  /\ i' = 1
  /\ pc' = "loop"
  /\ UNCHANGED <<asked, previous, tree, tree0, opts, config, rev, files, outcomes, faults, result>>

\* Opening the log or writing its header fails: the ? returns the error.
OpenLogFails ==
  /\ pc = "log"
  /\ ~opts.dry_run
  /\ CanFault
  /\ faults' = Append(faults, "open log")
  /\ pc' = "aborted"
  /\ result' = Err("open log")
  /\ UNCHANGED <<asked, previous, tree, tree0, opts, config, rev, files, i, stats, seen, log,
                 log_file, outcomes>>

\* The log was opened, but one of the writeln!(..)? of the header fails after
\* part of the header was written: the ? returns the error.
PartialHeader == [kind |-> "partial header"]
HeaderFails ==
  /\ pc = "log"
  /\ ~opts.dry_run
  /\ CanFault
  /\ faults' = Append(faults, "write header")
  /\ log_file' = Append(log_file, PartialHeader)
  /\ pc' = "aborted"
  /\ result' = Err("write header")
  /\ UNCHANGED <<asked, previous, tree, tree0, opts, config, rev, files, i, stats, seen, log,
                 outcomes>>

\* ------------------------------------------ organize: the loop over files
InLoop == pc = "loop" /\ i <= Len(files)

file_path == files[i]
file_name == FileName(file_path)
HasExtension == Extension(file_name) # NoExt
ext == ToLower(Extension(file_name))

\* fs::metadata(file_path) succeeds only on an existing file.
HasMetadata == IsFile(tree, file_path)
file_size == tree[file_path].size
modified_date == tree[file_path].day

\* format!("{file_name}|{modified_date}|{file_size}")
FingerprintOf_NoSize(name, day, size) == <<name, day>>

FingerprintOf(name, day, size) == <<name, day, size>>
key == FingerprintOf(file_name, modified_date, file_size)

\* The file passed the junk filter, has an extension and its metadata was read.
Examined == ~is_hidden_or_junk(file_path) /\ HasExtension /\ HasMetadata

IsDuplicate == opts.find_duplicates /\ key \in DOMAIN seen

\* seen.insert(key, FilePrint { first_seen, size })
Remember(map, k, path) == [q \in DOMAIN map \cup {k} |-> IF q = k THEN path ELSE map[q]]
SeenAfter == IF opts.find_duplicates THEN Remember(seen, key, file_path) ELSE seen

category == categorize(Categories(config), ext)

\* The file reaches the move step.
ToMove == Examined /\ ~IsDuplicate /\ category # NoCategory

\* dest_dir: the category folder, or with keep_structure the category folder
\* followed by the directories between the root and the file.
DestDir_AlwaysNested(keep, cat, path) ==
  IF Len(path) > 1 THEN <<cat>> \o Parent(path) ELSE <<cat>>

DestDir_NeverNested(keep, cat, path) == <<cat>>

DestDir(keep, cat, path) ==
  IF keep /\ Len(path) > 1 THEN <<cat>> \o Parent(path) ELSE <<cat>>
dest_dir == DestDir(opts.keep_structure, category, file_path)

dest_file == resolve_collision(tree, dest_dir, file_name, ext)

\* What the loop did with file_path: other is the destination (preview, moved,
\* error) or the first file seen (duplicate), e the failed operation.
Outcome(kind, other, e) == [kind |-> kind, src |-> file_path, other |-> other, e |-> e]

\* The counters with field f one higher.
Bump(st, f) == [st EXCEPT ![f] = @ + 1]

\* if is_hidden_or_junk(file_path) { continue; }
SkipJunk ==
  /\ InLoop
  /\ is_hidden_or_junk(file_path)
  /\ i' = i + 1
  /\ outcomes' = Append(outcomes, Outcome("junk", <<>>, ""))
  /\ UNCHANGED <<asked, previous, tree, tree0, opts, config, rev, pc, files, stats, seen, log,
                 log_file, faults, result>>

\* file_path.extension() is None: skipped += 1.
SkipNoExtension ==
  /\ InLoop
  /\ ~is_hidden_or_junk(file_path)
  /\ ~HasExtension
  /\ stats' = Bump(stats, "skipped")
  /\ i' = i + 1
  /\ outcomes' = Append(outcomes, Outcome("no extension", <<>>, ""))
  /\ UNCHANGED <<asked, previous, tree, tree0, opts, config, rev, pc, files, seen, log, log_file,
                 faults, result>>

MetadataFails_CountedAsError ==
  /\ InLoop
  /\ ~is_hidden_or_junk(file_path)
  /\ HasExtension
  /\ ~HasMetadata \/ CanFault
  /\ faults' = Append(faults, "metadata")
  /\ stats' = Bump(stats, "errors")
  /\ i' = i + 1
  /\ outcomes' = Append(outcomes, Outcome("error", <<>>, "metadata"))
  /\ UNCHANGED <<asked, previous, tree, tree0, opts, config, rev, pc, files, seen, log, log_file,
                 result>>

\* fs::metadata(file_path)? or meta.modified()? fails: organize returns the error.
MetadataFails ==
  /\ InLoop
  /\ ~is_hidden_or_junk(file_path)
  /\ HasExtension
  /\ ~HasMetadata \/ CanFault
  /\ faults' = Append(faults, "metadata")
  /\ pc' = "aborted"
  /\ result' = Err("metadata")
  /\ UNCHANGED <<asked, previous, tree, tree0, opts, config, rev, files, i, stats, seen, log,
                 log_file, outcomes>>

SkipDuplicate_AlsoSkipped ==
  /\ InLoop
  /\ Examined
  /\ IsDuplicate
  /\ stats' = Bump(Bump(stats, "duplicates"), "skipped")
  /\ i' = i + 1
  /\ outcomes' = Append(outcomes, Outcome("duplicate", seen[key], ""))
  /\ UNCHANGED <<asked, previous, tree, tree0, opts, config, rev, pc, files, seen, log, log_file,
                 faults, result>>

\* The fingerprint was seen before: duplicates += 1.
SkipDuplicate ==
  /\ InLoop
  /\ Examined
  /\ IsDuplicate
  /\ stats' = Bump(stats, "duplicates")
  /\ i' = i + 1
  /\ outcomes' = Append(outcomes, Outcome("duplicate", seen[key], ""))
  /\ UNCHANGED <<asked, previous, tree, tree0, opts, config, rev, pc, files, seen, log, log_file,
                 faults, result>>

SkipNoCategory_CountedAsError ==
  /\ InLoop
  /\ Examined
  /\ ~IsDuplicate
  /\ category = NoCategory
  /\ seen' = SeenAfter
  /\ stats' = Bump(stats, "errors")
  /\ i' = i + 1
  /\ outcomes' = Append(outcomes, Outcome("no category", <<>>, ""))
  /\ UNCHANGED <<asked, previous, tree, tree0, opts, config, rev, pc, files, log, log_file,
                 faults, result>>

\* config.categorize(&ext) is None: skipped += 1.
SkipNoCategory ==
  /\ InLoop
  /\ Examined
  /\ ~IsDuplicate
  /\ category = NoCategory
  /\ seen' = SeenAfter
  /\ stats' = Bump(stats, "skipped")
  /\ i' = i + 1
  /\ outcomes' = Append(outcomes, Outcome("no category", <<>>, ""))
  /\ UNCHANGED <<asked, previous, tree, tree0, opts, config, rev, pc, files, log, log_file,
                 faults, result>>

Preview_NotRemembered ==
  /\ InLoop
  /\ ToMove
  /\ opts.dry_run
  /\ stats' = Bump(stats, "moved")
  /\ i' = i + 1
  /\ outcomes' = Append(outcomes, Outcome("preview", dest_file, ""))
  /\ UNCHANGED <<asked, previous, tree, tree0, opts, config, rev, pc, files, seen, log,
                 log_file, faults, result>>

\* dry_run: the would-be move is printed and counted.
Preview ==
  /\ InLoop
  /\ ToMove
  /\ opts.dry_run
  /\ seen' = SeenAfter
  /\ stats' = Bump(stats, "moved")
  /\ i' = i + 1
  /\ outcomes' = Append(outcomes, Outcome("preview", dest_file, ""))
  /\ UNCHANGED <<asked, previous, tree, tree0, opts, config, rev, pc, files, log, log_file,
                 faults, result>>

\* ------------------------------------------------- organize: the move step
RealMove == InLoop /\ ToMove /\ ~opts.dry_run

\* if !dest_dir.exists() { fs::create_dir_all(&dest_dir)?; }
DirReady == Exists(tree, dest_dir) \/ CanCreateDirAll(tree, dest_dir)
TreeWithDir == IF Exists(tree, dest_dir) THEN tree ELSE create_dir_all(tree, dest_dir)

MoveLine == [kind |-> "move", src |-> file_path, dst |-> dest_file]

\* fs::create_dir_all fails: the ? makes organize return the error.
CreateDirFails ==
  /\ RealMove
  /\ ~Exists(tree, dest_dir)
  /\ ~CanCreateDirAll(tree, dest_dir) \/ CanFault
  /\ faults' = IF CanCreateDirAll(tree, dest_dir) THEN Append(faults, "create_dir_all") ELSE faults
  /\ seen' = SeenAfter
  /\ pc' = "aborted"
  /\ result' = Err("create_dir_all")
  /\ UNCHANGED <<asked, previous, tree, tree0, opts, config, rev, files, i, stats, log, log_file,
                 outcomes>>

\* The bookkeeping of the Ok(()) arm: log line, moved += 1.
Moved(newTree, lineWritten) ==
  /\ tree' = newTree
  /\ log_file' = IF lineWritten THEN Append(log_file, MoveLine) ELSE log_file
  /\ seen' = SeenAfter
  /\ stats' = Bump(stats, "moved")
  /\ i' = i + 1
  /\ outcomes' = Append(outcomes, Outcome("moved", dest_file, ""))
  /\ UNCHANGED <<asked, previous, tree0, opts, config, rev, pc, files, log, result>>

Failed_CountedAsMoved(newTree, e) ==
  /\ tree' = newTree
  /\ seen' = SeenAfter
  /\ stats' = Bump(stats, "moved")
  /\ i' = i + 1
  /\ outcomes' = Append(outcomes, Outcome("error", dest_file, e))
  /\ UNCHANGED <<asked, previous, tree0, opts, config, rev, pc, files, log, log_file, result>>

\* The bookkeeping of the Err(e) arm: errors += 1.
Failed(newTree, e) ==
  /\ tree' = newTree
  /\ seen' = SeenAfter
  /\ stats' = Bump(stats, "errors")
  /\ i' = i + 1
  /\ outcomes' = Append(outcomes, Outcome("error", dest_file, e))
  /\ UNCHANGED <<asked, previous, tree0, opts, config, rev, pc, files, log, log_file, result>>

\* move_file: fs::rename succeeds.
MoveRenamed ==
  /\ RealMove
  /\ DirReady
  /\ CanPlace(TreeWithDir, file_path, dest_file)
  /\ Moved(rename(TreeWithDir, file_path, dest_file), TRUE)
  /\ UNCHANGED faults

\* move_file: fs::rename succeeds, but writing the log line fails (.ok()).
MoveRenamedUnlogged ==
  /\ RealMove
  /\ DirReady
  /\ CanPlace(TreeWithDir, file_path, dest_file)
  /\ CanFault
  /\ faults' = Append(faults, "writeln")
  /\ Moved(rename(TreeWithDir, file_path, dest_file), FALSE)

\* move_file: fs::rename fails, fs::copy and fs::remove_file succeed.
MoveCopied ==
  /\ RealMove
  /\ DirReady
  /\ CanPlace(TreeWithDir, file_path, dest_file)
  /\ CanFault
  /\ faults' = Append(faults, "rename")
  /\ Moved(remove_file(copy(TreeWithDir, file_path, dest_file), file_path), TRUE)

\* move_file: fs::rename fails and fs::copy fails before creating anything.
MoveFailsCopy ==
  /\ RealMove
  /\ DirReady
  /\ ~CanPlace(TreeWithDir, file_path, dest_file) \/ CanFault
  /\ faults' = IF CanPlace(TreeWithDir, file_path, dest_file) THEN Append(faults, "copy") ELSE faults
  /\ Failed(TreeWithDir, "copy")

\* move_file: fs::rename fails and fs::copy fails after creating the target.
MoveFailsCopyInterrupted ==
  /\ RealMove
  /\ DirReady
  /\ CanPlace(TreeWithDir, file_path, dest_file)
  /\ CanFault
  /\ faults' = Append(faults, "copy")
  /\ Failed(copy_interrupted(TreeWithDir, dest_file), "copy")

MoveFailsRemove_Swallowed ==
  /\ RealMove
  /\ DirReady
  /\ CanPlace(TreeWithDir, file_path, dest_file)
  /\ CanFault
  /\ faults' = Append(faults, "remove_file")
  /\ Moved(copy(TreeWithDir, file_path, dest_file), TRUE)

\* move_file: fs::rename fails, fs::copy succeeds, fs::remove_file fails.
MoveFailsRemove ==
  /\ RealMove
  /\ DirReady
  /\ CanPlace(TreeWithDir, file_path, dest_file)
  /\ CanFault
  /\ faults' = Append(faults, "remove_file")
  /\ Failed(copy(TreeWithDir, file_path, dest_file), "remove_file")

\* The loop is over: Ok(stats).
Finish ==
  /\ pc = "loop"
  /\ i > Len(files)
  /\ pc' = "done"
  /\ result' = Ok(stats)
  /\ UNCHANGED <<asked, previous, tree, tree0, opts, config, rev, files, i, stats, seen, log,
                 log_file, outcomes, faults>>

Next ==
  \/ CollectFiles
  \/ ReadDirFails
  \/ OpenLog
  \/ OpenLogFails
  \/ HeaderFails
  \/ SkipJunk
  \/ SkipNoExtension
  \/ MetadataFails
  \/ SkipDuplicate
  \/ SkipNoCategory
  \/ Preview
  \/ CreateDirFails
  \/ MoveRenamed
  \/ MoveRenamedUnlogged
  \/ MoveCopied
  \/ MoveFailsCopy
  \/ MoveFailsCopyInterrupted
  \/ MoveFailsRemove
  \/ Finish

Spec == Init /\ [][Next]_vars

\* What is kept of a run that returned: its result and what it reported for
\* each file.
Earlier_run == [result |-> result, outcomes |-> outcomes]

\* The state organize starts from when it is called again on the same root.
CalledAgain ==
  /\ previous' = Earlier_run
  /\ tree0' = tree
  /\ pc' = "start"
  /\ files' = <<>>
  /\ i' = 1
  /\ stats' = ZeroStats
  /\ seen' = EmptyMap
  /\ log' = "None"
  /\ outcomes' = <<>>
  /\ result' = Running
  /\ UNCHANGED <<asked, tree, config, rev, log_file, faults>>

\* A non-dry run of organize has returned without errors and organize is
\* called again on the same root with the same configuration and flags.
RunAgain ==
  /\ pc = "done"
  /\ previous = Running
  /\ ~opts.dry_run
  /\ result.stats.errors = 0
  /\ CalledAgain
  /\ UNCHANGED opts

NextRerun ==
  \/ Next
  \/ RunAgain

SpecRerun == Init /\ [][NextRerun]_vars

\* A dry run of organize has returned and organize is called on the same
\* root with the same configuration and flags, but for real.
RunForReal ==
  /\ pc = "done"
  /\ previous = Running
  /\ opts.dry_run
  /\ CalledAgain
  /\ opts' = [opts EXCEPT !.dry_run = FALSE]

NextPreview ==
  \/ Next
  \/ RunForReal

SpecPreview == Init /\ [][NextPreview]_vars

\* The tree walk alone, over the trees of WalkTrees.
InitWalk ==
  /\ tree \in WalkTrees
  /\ opts \in [dry_run : {FALSE}, find_duplicates : BOOLEAN, keep_structure : BOOLEAN]
  /\ Called

NextWalk ==
  \/ CollectFiles
  \/ ReadDirFails

SpecWalk == InitWalk /\ [][NextWalk]_vars

\* ------------------------------------------------ categorize called directly
\* char::to_lowercase of one character: as to_ascii_lowercase on ASCII, and
\* the lower-case letter of a letter outside ASCII.
LowerCharUnicode(c) == IF c = EAcuteUpper THEN EAcuteLower ELSE LowerChar(c)

\* The characters that differ from c at most in case.
CaseForms(c) == {d \in Chars : LowerCharUnicode(d) = LowerCharUnicode(c)}

\* The spellings of s in every mix of upper and lower case.
RECURSIVE CaseVariants(_)
CaseVariants(s) ==
  IF s = <<>> THEN {<<>>}
  ELSE {<<c>> \o t : c \in CaseForms(Head(s)), t \in CaseVariants(Tail(s))}

\* The extensions a configuration lists.
Listed(categories) ==
  UNION {{categories[k].exts[j] : j \in 1..Len(categories[k].exts)} :
           k \in 1..Len(categories)}

\* Extensions no configuration lists in any case: the empty string, an
\* unknown one, a prefix and an extension of a listed one.
Unlisted ==
  {<<>>, <<"x","y","z">>, <<"j","p">>, <<"j","p","g","x">>, <<"m","p","4","v">>}

\* What a caller asks categorize about: the listed extensions in every
\* case, and unlisted ones.
AskedExtensions(cfg) ==
  Unlisted \cup UNION {CaseVariants(e) : e \in Listed(Categories(cfg))}

InitCategorize ==
  /\ tree = TreeOf({})
  /\ tree0 = tree
  /\ opts = [dry_run |-> FALSE, find_duplicates |-> FALSE, keep_structure |-> FALSE]
  /\ config \in LoadedConfigs
  /\ rev = FALSE
  /\ pc = "start"
  /\ files = <<>>
  /\ i = 1
  /\ stats = ZeroStats
  /\ seen = EmptyMap
  /\ log = "None"
  /\ log_file = PriorLog
  /\ outcomes = <<>>
  /\ faults = <<>>
  /\ result = Running
  /\ extension \in AskedExtensions(config)
  /\ answer = NotAsked
  /\ previous = Running

\* config.categorize(extension)
Categorize ==
  /\ answer = NotAsked
  /\ answer' = categorize(Categories(config), extension)
  /\ UNCHANGED <<tree, tree0, opts, config, rev, pc, files, i, stats, seen, log,
                 log_file, outcomes, faults, result, extension, previous>>

NextCategorize == \/ Categorize

SpecCategorize == InitCategorize /\ [][NextCategorize]_vars

\* ---------------------------------------------------------- type invariant
TypeOK ==
  /\ pc \in {"start", "log", "loop", "done", "aborted"}
  /\ Root \in DOMAIN tree /\ tree[Root] = DirNode
  /\ \A p \in DOMAIN tree : p # Root => IsDir(tree, Parent(p))
  /\ i \in 1..(Len(files) + 1)
  /\ Len(faults) <= MaxFaults
  /\ log \in {"None", "Some"}

\* =================================================================== claims
\* The regular files of the tree organize was called on.
Files0 == {p \in DOMAIN tree0 : tree0[p].kind = "file"}

\* The category the configuration gives the extension of a path's file name.
CategoryOf(p) ==
  IF Extension(FileName(p)) = NoExt THEN NoCategory
  ELSE categorize(Categories(config), ToLower(Extension(FileName(p))))

Returned == pc = "done"

\* The positions of files the loop has handled so far.
Processed == 1..Len(outcomes)

\* The junk names, as the specification lists them.
JunkName(name) ==
  StartsWithDot(name) \/ name \in {ThumbsDb, DesktopIni, OrganizerLog}

\* Same file name, same modification day, same byte size when organize started.
SamePrint(p, q) ==
  /\ FileName(p) = FileName(q)
  /\ tree0[p].day = tree0[q].day
  /\ tree0[p].size = tree0[q].size

\* The file at position k is neither junk nor without extension.
Fingerprinted(k) ==
  ~JunkName(FileName(files[k])) /\ Extension(FileName(files[k])) # NoExt

\* The earlier fingerprinted files with the fingerprint of file k.
Earlier(k) == {j \in 1..(k - 1) : Fingerprinted(j) /\ SamePrint(files[j], files[k])}

\* What the specification's pipeline does with the file at position k.
Class(k) ==
  IF JunkName(FileName(files[k])) THEN "junk"
  ELSE IF Extension(FileName(files[k])) = NoExt THEN "no extension"
  ELSE IF opts.find_duplicates /\ Earlier(k) # {} THEN "duplicate"
  ELSE IF CategoryOf(files[k]) = NoCategory THEN "no category"
  ELSE "move"

\* The number of handled files of the given classes.
CountClass(S) == Cardinality({k \in Processed : Class(k) \in S})

\* --------------------------------------------------------------------- C1
\* The premises C1 states: pairwise distinct file names, every extension
\* mapped to a category, no directory named like a category.
C1_Premise ==
  /\ \A p \in Files0 : \A q \in Files0 : p # q => FileName(p) # FileName(q)
  /\ \A p \in Files0 : CategoryOf(p) # NoCategory
  /\ \A p \in DOMAIN tree0 :
       p # Root /\ tree0[p].kind = "dir"
         => FileName(p) \notin CategoryNames(Categories(config))

\* Every file ended at root/<category>/<name>, none is left at its source,
\* moved is the number of files and errors is 0.
C1_AllSorted ==
  /\ \A p \in Files0 :
       LET dst == <<CategoryOf(p), FileName(p)>>
       IN /\ dst \in DOMAIN tree
          /\ tree[dst] = tree0[p]
          /\ p \notin DOMAIN tree
  /\ result.stats.moved = Cardinality(Files0)
  /\ result.stats.errors = 0

\* No path of the tree has a component starting with '.'.
C1_NothingHidden == \A p \in DOMAIN tree0 : p # Root => ~StartsWithDot(FileName(p))

\* C1 as stated (read with every I/O operation succeeding and no hidden
\* entry in the tree): after a non-dry run over a root satisfying the
\* premises, every file is sorted.
C1_AsStated ==
  (Returned /\ ~opts.dry_run /\ faults = <<>> /\ C1_Premise /\ C1_NothingHidden)
  => C1_AllSorted

\* No entry is hidden and no file has a junk name.
C1_NothingHiddenOrJunk ==
  /\ C1_NothingHidden
  /\ \A p \in Files0 : ~is_hidden_or_junk(p)

\* keep_structure is off, or every file lies directly in the root.
C1_Flat == ~opts.keep_structure \/ \A p \in Files0 : Len(p) = 1

\* C1, amended: with C1's premises, when moreover no entry is hidden or junk,
\* keep_structure is off or all files lie directly in the root, and no I/O
\* operation fails, a non-dry run ends with every file at
\* root/<category>/<name>, no original left, moved = number of files and
\* errors = 0.
C1_SortsEveryFile ==
  (pc \in {"done", "aborted"} /\ ~opts.dry_run /\ faults = <<>> /\ C1_Premise
     /\ C1_NothingHiddenOrJunk /\ C1_Flat)
  => Returned /\ C1_AllSorted

\* A finished non-dry run over two files of different categories, one of them
\* in a sub-directory, that satisfies the amended premises.
C1_Witness ==
  /\ Returned /\ ~opts.dry_run /\ faults = <<>>
  /\ C1_Premise /\ C1_NothingHiddenOrJunk /\ C1_Flat
  /\ Cardinality(Files0) = 2
  /\ \E p \in Files0 : Len(p) > 1
  /\ result.stats.moved = 2

\* --------------------------------------------------------------------- C2
\* C2: a dry run never changes the filesystem, whatever the tree and the
\* flags: the tree is the one organize started with, the log was neither
\* opened nor written, and moved counts the handled files that reached the
\* move step.
C2_DryRunTouchesNothing ==
  opts.dry_run =>
    /\ tree = tree0
    /\ log = "None"
    /\ log_file = PriorLog
    /\ stats.moved = CountClass({"move"})
    /\ \A k \in Processed : outcomes[k].kind = "preview" <=> Class(k) = "move"

\* A finished dry run that previewed two moves into a category folder that
\* does not exist.
C2_Witness ==
  /\ opts.dry_run /\ Returned
  /\ result.stats.moved >= 2
  /\ \E k \in Processed :
       outcomes[k].kind = "preview" /\ ~Exists(tree, Parent(outcomes[k].other))

\* --------------------------------------------------------------------- C3
Min(S) == CHOOSE x \in S : \A y \in S : x <= y

\* The earlier discovered files, of any kind, with the fingerprint of file k.
C3_EarlierAny(k) == {j \in 1..(k - 1) : SamePrint(files[j], files[k])}

\* C3 as stated: with duplicate detection, every handled file that shares its
\* fingerprint with an earlier discovered file is a duplicate of the first
\* such file, stays where it was, and duplicates counts exactly these files.
C3_AsStated ==
  opts.find_duplicates =>
    /\ \A k \in Processed :
         C3_EarlierAny(k) # {} =>
           /\ outcomes[k].kind = "duplicate"
           /\ outcomes[k].other = files[Min(C3_EarlierAny(k))]
           /\ files[k] \in DOMAIN tree /\ tree[files[k]] = tree0[files[k]]
    /\ stats.duplicates = Cardinality({k \in Processed : C3_EarlierAny(k) # {}})

\* C3, amended: with duplicate detection, among the discovered files that are
\* not junk and have an extension, a handled file that shares its fingerprint
\* with an earlier one is reported as a duplicate of the first of them, is
\* not moved and stays untouched at its path, whatever happened to the first;
\* no other file is a duplicate, and duplicates counts exactly these files.
C3_LaterOnesAreDuplicates ==
  opts.find_duplicates =>
    /\ \A k \in Processed :
         IF Fingerprinted(k) /\ Earlier(k) # {}
           THEN /\ outcomes[k].kind = "duplicate"
                /\ outcomes[k].other = files[Min(Earlier(k))]
                /\ files[k] \in DOMAIN tree /\ tree[files[k]] = tree0[files[k]]
           ELSE outcomes[k].kind # "duplicate"
    /\ stats.duplicates =
         Cardinality({k \in Processed : Fingerprinted(k) /\ Earlier(k) # {}})

\* The outcome of the file a duplicate at position k was a duplicate of.
C3_FirstOutcome(k) ==
  outcomes[CHOOSE j \in Processed : outcomes[j].src = outcomes[k].other]

\* A duplicate was flagged whose first file had failed to move.
C3_Witness ==
  /\ opts.find_duplicates
  /\ \E k \in Processed :
       outcomes[k].kind = "duplicate" /\ C3_FirstOutcome(k).kind = "error"

\* A duplicate was flagged whose first file was moved, and one whose first
\* file was skipped for having no category.
C3_WitnessMoved ==
  \E k \in Processed :
    outcomes[k].kind = "duplicate" /\ C3_FirstOutcome(k).kind = "moved"
C3_WitnessNoCategory ==
  \E k \in Processed :
    outcomes[k].kind = "duplicate" /\ C3_FirstOutcome(k).kind = "no category"

\* --------------------------------------------------------------------- C4
\* The n-th path of the fixed sequence: dir/name, dir/stem_<today>.ext, then
\* dir/stem_<today>_v<n>.ext for n = 2, 3, ...
C4_Path(dir, name, e, n) ==
  IF n = 0 THEN Append(dir, name)
  ELSE IF n = 1 THEN Append(dir, FileStem(name) \o <<"_">> \o Today \o <<".">> \o e)
  ELSE Append(dir, FileStem(name) \o <<"_">> \o Today \o <<"_", "v">>
                     \o Decimal(n) \o <<".">> \o e)

\* resolve_collision(dir, name, e) on the current tree is a path of the
\* sequence that does not exist, and all earlier paths of the sequence exist.
C4_FirstFree(dir, name, e) ==
  LET r == resolve_collision(tree, dir, name, e)
  IN /\ r \notin DOMAIN tree
     /\ \E n \in 0..Cardinality(Children(tree, dir)) :
          /\ r = C4_Path(dir, name, e, n)
          /\ \A m \in 0..(n - 1) : C4_Path(dir, name, e, m) \in DOMAIN tree

\* The directories and file names resolve_collision is tried on: every
\* directory of the tree and the destination of the file at hand, with the
\* name of every discovered file that has an extension.
C4_Dirs ==
  {d \in DOMAIN tree : tree[d].kind = "dir"}
    \cup (IF InLoop /\ ToMove THEN {dest_dir} ELSE {})
C4_Names ==
  {FileName(files[k]) : k \in {j \in 1..Len(files) : Extension(FileName(files[j])) # NoExt}}

\* C4: in every reachable tree resolve_collision returns the first path of
\* the sequence that does not exist.
C4_ResolvesToFirstFree ==
  \A d \in C4_Dirs : \A name \in C4_Names :
    C4_FirstFree(d, name, ToLower(Extension(name)))

\* A file was moved under the _v2 name: its name and its dated name were
\* both taken when resolve_collision was called.
C4_Witness ==
  \E k \in Processed :
    /\ outcomes[k].kind = "moved"
    /\ outcomes[k].other = C4_Path(<<Images>>, AJpg, <<"j","p","g">>, 2)
    /\ C4_Path(<<Images>>, AJpg, <<"j","p","g">>, 0) \in DOMAIN tree
    /\ C4_Path(<<Images>>, AJpg, <<"j","p","g">>, 1) \in DOMAIN tree

\* --------------------------------------------------------------------- C5
\* The files that were inside a top-level category folder when organize
\* started.
C5_SortedBefore ==
  {p \in Files0 : Len(p) > 1 /\ p[1] \in CategoryNames(Categories(config))
                    /\ tree0[<<p[1]>>].kind = "dir"}

\* The name a file is stored under is its own or a date/version-suffixed one.
C5_NameOrSuffixed(src, dst) ==
  \E n \in 0..(Cardinality(DOMAIN tree) + 1) :
    dst = C4_Path(Parent(dst), FileName(src), ToLower(Extension(FileName(src))), n)

\* C5: in a non-dry run the path a move is about to target never exists;
\* every file that was in a category folder before the run is still at its
\* path with its content; every file moved earlier in the run is still at
\* the path it was moved to, with its content, under its own name or a
\* date/version-suffixed one.
C5_NothingOverwritten ==
  ~opts.dry_run =>
    /\ (InLoop /\ ToMove /\ DirReady) => dest_file \notin DOMAIN TreeWithDir
    /\ \A p \in C5_SortedBefore : p \in DOMAIN tree /\ tree[p] = tree0[p]
    /\ \A k \in Processed :
         outcomes[k].kind = "moved" =>
           /\ outcomes[k].other \in DOMAIN tree
           /\ tree[outcomes[k].other].kind = "file"
           /\ tree[outcomes[k].other].data = files[k]
           /\ tree[outcomes[k].other].size = tree0[files[k]].size
           /\ C5_NameOrSuffixed(files[k], outcomes[k].other)

\* A file a.jpg was already in Images; two incoming files named a.jpg were
\* moved there under suffixed names and all three are kept.
C5_Witness ==
  /\ ~opts.dry_run
  /\ <<Images, AJpg>> \in C5_SortedBefore
  /\ tree[<<Images, AJpg>>] = tree0[<<Images, AJpg>>]
  /\ Cardinality({k \in Processed :
                    /\ outcomes[k].kind = "moved"
                    /\ FileName(files[k]) = AJpg
                    /\ Parent(outcomes[k].other) = <<Images>>
                    /\ FileName(outcomes[k].other) # AJpg}) = 2

\* --------------------------------------------------------------------- C6
\* The outcome at position k is a move that failed in the copy of the
\* fallback (the rename had failed before).
C6_CopyFailed(k) == outcomes[k].kind = "error" /\ outcomes[k].e = "copy"

\* The source of every such failure is untouched at its path and has no line
\* in the log.
C6_SourceKept ==
  \A k \in Processed :
    C6_CopyFailed(k) =>
      /\ files[k] \in DOMAIN tree /\ tree[files[k]] = tree0[files[k]]
      /\ \A n \in 1..Len(log_file) :
           log_file[n].kind = "move" => log_file[n].src # files[k]

\* The step in which a move fails in the copy: the source is as before,
\* errors grows by one and no other counter changes, nothing is logged, and
\* the loop goes on to the next file.
C6_FailureStep ==
  (Len(outcomes') = Len(outcomes) + 1
     /\ outcomes'[Len(outcomes')].kind = "error"
     /\ outcomes'[Len(outcomes')].e = "copy")
  => /\ outcomes'[Len(outcomes')].src = file_path
     /\ file_path \in DOMAIN tree' /\ tree'[file_path] = tree[file_path]
     /\ stats' = [stats EXCEPT !.errors = @ + 1]
     /\ log_file' = log_file
     /\ pc' = "loop" /\ i' = i + 1 /\ result' = result

\* C6: when a move fails because rename and copy both fail, the source is
\* left untouched, errors is incremented by one, moved is not, no log line is
\* written for the file, and organize continues with the next file.
C6_CopyFailureIsCounted == [][C6_FailureStep]_vars /\ []C6_SourceKept

\* A run returned after a move failed in the copy and a later file was
\* handled.
C6_Witness ==
  /\ Returned
  /\ \E k \in Processed : C6_CopyFailed(k) /\ k < Len(outcomes)
  /\ result.stats.errors = 1

\* --------------------------------------------------------------------- C7
\* The step in which reading a file's metadata fails: the file is not junk
\* and has an extension, organize returns the error at once, without
\* counters, and leaves tree, log and counters as they are.
C7_FailureStep ==
  faults' = Append(faults, "metadata")
  => /\ InLoop
     /\ ~JunkName(file_name) /\ Extension(file_name) # NoExt
     /\ pc' = "aborted"
     /\ result' = [tag |-> "Err", e |-> "metadata"]
     /\ tree' = tree /\ log_file' = log_file
     /\ stats' = stats /\ outcomes' = outcomes /\ i' = i

\* After the abort the files moved earlier are at their destinations and not
\* at their sources, and the files from the failing one on are untouched.
C7_NoRollback ==
  (pc = "aborted" /\ result.e = "metadata") =>
    /\ \A k \in Processed :
         outcomes[k].kind = "moved" =>
           /\ outcomes[k].other \in DOMAIN tree
           /\ tree[outcomes[k].other].data = files[k]
           /\ files[k] \notin DOMAIN tree
    /\ Len(outcomes) = i - 1
    /\ \A k \in i..Len(files) : files[k] \in DOMAIN tree /\ tree[files[k]] = tree0[files[k]]

\* C7: a failing metadata read of a non-junk file with an extension aborts
\* organize at once with an error: nothing happens after the abort, no
\* counters are returned, and earlier moves are not rolled back.
C7_MetadataFailureAborts ==
  /\ [][C7_FailureStep]_vars
  /\ [][pc # "aborted"]_vars
  /\ []C7_NoRollback

\* organize aborted on a metadata failure after it had moved a file.
C7_Witness ==
  /\ pc = "aborted" /\ result = [tag |-> "Err", e |-> "metadata"]
  /\ \E k \in Processed : outcomes[k].kind = "moved"
  /\ i < Len(files)

\* --------------------------------------------------------------------- C8
SeqRange(q) == {q[k] : k \in 1..Len(q)}

\* The regular files of tree t that can be reached from the root without
\* meeting a name that starts with '.' and without passing through a
\* directory with an excluded name.
C8_Reachable(t, excluded) ==
  {p \in DOMAIN t :
     /\ t[p].kind = "file"
     /\ \A k \in 1..Len(p) :
          ~StartsWithDot(p[k]) /\ (k < Len(p) => p[k] \notin excluded)}

\* collect_files on tree t returns exactly these files, each once.
C8_Exact(t, excluded, order) ==
  LET out == collect_files(t, Root, excluded, order)
  IN /\ SeqRange(out) = C8_Reachable(t, excluded)
     /\ Len(out) = Cardinality(C8_Reachable(t, excluded))

\* C8: on every tree of the walk, in either listing order, with the category
\* names or with nothing excluded, collect_files returns exactly the
\* reachable regular files, each once; and files is that result once
\* organize has collected.
C8_CollectsExactly ==
  /\ \A order \in BOOLEAN :
       /\ C8_Exact(tree, CategoryNames(Categories(config)), order)
       /\ C8_Exact(tree, {}, order)
  /\ pc \in {"log", "loop"} =>
       /\ SeqRange(files) = C8_Reachable(tree0, CategoryNames(Categories(config)))
       /\ Len(files) = Cardinality(SeqRange(files))

\* collect_files returned a regular file named like a category, from a tree
\* that also holds a hidden file or directory and a category folder with a
\* file in it.
C8_Witness ==
  /\ pc = "log"
  /\ \E k \in 1..Len(files) : FileName(files[k]) \in CategoryNames(Categories(config))
  /\ \E p \in Files0 : \E k \in 1..Len(p) : StartsWithDot(p[k])
  /\ \E p \in Files0 :
       \E k \in 1..(Len(p) - 1) : p[k] \in CategoryNames(Categories(config))

\* --------------------------------------------------------------------- C9
Total(st) == st.moved + st.duplicates + st.skipped + st.errors

\* C9: a handled file is treated as junk exactly when its name starts with
\* '.' or is Thumbs.db, desktop.ini or organizer_log.txt; a junk file stays
\* untouched at its path and adds to none of the four counters, so the
\* counters add up to the number of handled files that are not junk.
C9_JunkIsLeftAlone ==
  /\ \A k \in Processed :
       IF JunkName(FileName(files[k]))
         THEN /\ outcomes[k].kind = "junk"
              /\ files[k] \in DOMAIN tree /\ tree[files[k]] = tree0[files[k]]
         ELSE outcomes[k].kind # "junk"
  /\ Total(stats) = Cardinality({k \in Processed : ~JunkName(FileName(files[k]))})
  /\ \A p \in DOMAIN tree \cup {<<ThumbsDb>>, <<DesktopIni>>, <<DotXJpg>>} :
       p # Root => (is_hidden_or_junk(p) <=> JunkName(FileName(p)))

\* A run returned that left organizer_log.txt, whose extension txt belongs to
\* Documents, in place while it moved two other files.
C9_Witness ==
  /\ Returned
  /\ \E k \in Processed : outcomes[k].kind = "junk" /\ FileName(files[k]) = OrganizerLog
  /\ result.stats = [moved |-> 2, duplicates |-> 0, skipped |-> 0, errors |-> 0]

\* -------------------------------------------------------------------- C10
\* C10: a handled file that is not junk and has no extension, or whose
\* extension matches no category and that is not a duplicate, is skipped and
\* stays untouched at its path; skipped counts exactly these files and moved
\* and errors count only files that reached the move step.
C10_UnsortableIsSkipped ==
  LET classes == {<<k, Class(k)>> : k \in Processed}
      Count(S) == Cardinality({c \in classes : c[2] \in S})
  IN /\ \A c \in classes :
          c[2] \in {"no extension", "no category"} =>
            /\ outcomes[c[1]].kind = c[2]
            /\ files[c[1]] \in DOMAIN tree
            /\ tree[files[c[1]]] = tree0[files[c[1]]]
     /\ stats.skipped = Count({"no extension", "no category"})
     /\ stats.moved + stats.errors = Count({"move"})

\* A run returned that skipped a file without extension and a file of an
\* unknown extension and moved a third file.
C10_Witness ==
  /\ Returned
  /\ \E k \in Processed : outcomes[k].kind = "no extension"
  /\ \E k \in Processed : outcomes[k].kind = "no category"
  /\ result.stats = [moved |-> 1, duplicates |-> 0, skipped |-> 2, errors |-> 0]

\* -------------------------------------------------------------------- C11
\* The destination directory C11 gives the file at path p: the category
\* folder, followed by the directories between the root and the file when
\* keep-structure is on and the file lies in a sub-directory.
C11_Dir(p) ==
  IF opts.keep_structure /\ Len(p) > 1
    THEN <<CategoryOf(p)>> \o SubSeq(p, 1, Len(p) - 1)
    ELSE <<CategoryOf(p)>>

\* C11: every file that reached the move step (previewed, moved or failed)
\* was given a destination directly inside the directory C11 gives it; a
\* moved file is in that directory, with its content, under its own name or
\* a date/version-suffixed one.
C11_DestinationDirectory ==
  \A k \in Processed :
    /\ outcomes[k].kind \in {"preview", "moved", "error"} =>
         Parent(outcomes[k].other) = C11_Dir(files[k])
    /\ outcomes[k].kind = "moved" =>
         /\ outcomes[k].other \in DOMAIN tree
         /\ tree[outcomes[k].other].data = files[k]
         /\ C5_NameOrSuffixed(files[k], outcomes[k].other)

\* With keep-structure on, a file from sub/deep was moved into
\* Images/sub/deep and a file from the root into Images.
C11_Witness ==
  /\ opts.keep_structure
  /\ \E k \in Processed :
       /\ outcomes[k].kind = "moved"
       /\ files[k] = <<Sub, Deep, AJpg>>
       /\ outcomes[k].other = <<Images, Sub, Deep, AJpg>>
       /\ outcomes[k].other \in DOMAIN tree
  /\ \E k \in Processed :
       /\ outcomes[k].kind = "moved"
       /\ Len(files[k]) = 1
       /\ Len(outcomes[k].other) = 2

\* -------------------------------------------------------------------- C12
\* The `source -> destination` lines of the files moved among the first n
\* handled, in processing order.
RECURSIVE C12_MovedLines(_)
C12_MovedLines(n) ==
  IF n = 0 THEN <<>>
  ELSE LET rest == C12_MovedLines(n - 1)
       IN IF outcomes[n].kind = "moved"
            THEN Append(rest, [kind |-> "move", src |-> files[n],
                               dst |-> outcomes[n].other])
            ELSE rest

\* a can be obtained from b by leaving elements out.
RECURSIVE C12_Subseq(_, _)
C12_Subseq(a, b) ==
  IF a = <<>> THEN TRUE
  ELSE IF b = <<>> THEN FALSE
  ELSE IF Head(a) = Head(b) THEN C12_Subseq(Tail(a), Tail(b))
  ELSE C12_Subseq(a, Tail(b))

\* The lines the log holds after the earlier content and the header.
C12_Lines == SubSeq(log_file, Len(PriorLog) + 2, Len(log_file))

\* The number of log lines whose write failed.
C12_LostLines == Cardinality({k \in 1..Len(faults) : faults[k] = "writeln"})

\* The run is not dry, discovered a file and has passed the log set-up.
C12_Logging == ~opts.dry_run /\ files # <<>> /\ pc \in {"loop", "done"}

\* C12 as stated: in a non-dry run that has passed the log set-up the log is
\* the earlier content, one header and exactly the lines of the moved files.
C12_AsStated ==
  C12_Logging =>
    log_file = PriorLog \o <<Header>> \o C12_MovedLines(Len(outcomes))

\* C12, amended: the earlier content always stays at the front of the log;
\* once a non-dry run has passed the log set-up the log is the earlier
\* content, one header and lines of moved files only, in processing order,
\* at most one per moved file, and the moved files without a line are as
\* many as the line writes that failed.
C12_LogHoldsMovedLines ==
  /\ Len(log_file) >= Len(PriorLog)
  /\ SubSeq(log_file, 1, Len(PriorLog)) = PriorLog
  /\ C12_Logging => log = "Some"
  /\ log = "Some" =>
       LET moved == C12_MovedLines(Len(outcomes))
       IN /\ Len(log_file) > Len(PriorLog)
          /\ log_file[Len(PriorLog) + 1] = Header
          /\ C12_Subseq(C12_Lines, moved)
          /\ Len(moved) - Len(C12_Lines) = C12_LostLines

\* A non-dry run returned that moved two files and left a third one; the log
\* holds the earlier content, the header and the two lines in order.
C12_Witness ==
  /\ Returned /\ ~opts.dry_run
  /\ result.stats.moved = 2 /\ Len(outcomes) = 3
  /\ Len(log_file) = Len(PriorLog) + 3
  /\ C12_Lines = C12_MovedLines(Len(outcomes))

\* A moved file has no line: the write of its line failed and was ignored.
C12_WitnessLost ==
  /\ Returned /\ result.stats.moved = 1 /\ result.stats.errors = 0
  /\ C12_Lines = <<>>
  /\ C12_LostLines = 1

\* -------------------------------------------------------------------- C13
\* The ASCII letter c in lower case, by its position in the alphabet; any
\* other character unchanged.
C13_AsciiLower(c) ==
  LET r == CharRank(c)
  IN IF r >= CharRank("A") /\ r <= CharRank("Z")
       THEN Alphabet[r + (CharRank("a") - CharRank("A"))]
       ELSE c

\* The letter c in lower case, ASCII or not.
C13_Lower(c) ==
  IF c \in {EAcuteUpper, EAcuteLower} THEN EAcuteLower ELSE C13_AsciiLower(c)

\* a and b differ at most in the case of ASCII letters.
C13_AsciiVariant(a, b) ==
  Len(a) = Len(b) /\ \A k \in 1..Len(a) : C13_AsciiLower(a[k]) = C13_AsciiLower(b[k])

\* a and b differ at most in the case of letters.
C13_CaseVariant(a, b) ==
  Len(a) = Len(b) /\ \A k \in 1..Len(a) : C13_Lower(a[k]) = C13_Lower(b[k])

C13_Answered == answer # NotAsked

\* C13 as stated: asked about an upper/lower-case variant of a listed
\* extension, categorize answers as for the listed spelling; asked about an
\* extension that is no variant of a listed one, it answers no-match.
C13_AsStated ==
  C13_Answered =>
    LET listed == Listed(Categories(config))
    IN /\ \A e \in listed :
            C13_CaseVariant(extension, e) =>
              answer = categorize(Categories(config), e)
       /\ (\A e \in listed : ~C13_CaseVariant(extension, e)) => answer = NoCategory

\* C13, amended: asked about a variant of a listed extension that differs
\* from it at most in the case of ASCII letters, categorize answers the
\* category it answers for the listed spelling, one that lists the
\* extension up to ASCII case; asked about any other extension, the empty
\* string included, it answers no-match.
C13_AsciiCaseInsensitive ==
  C13_Answered =>
    LET categories == Categories(config)
        listed == Listed(categories)
    IN /\ \A e \in listed :
            C13_AsciiVariant(extension, e) =>
              /\ answer = categorize(categories, e)
              /\ \E k \in 1..Len(categories) :
                   /\ answer = categories[k].name
                   /\ \E j \in 1..Len(categories[k].exts) :
                        C13_AsciiVariant(categories[k].exts[j], extension)
       /\ (\A e \in listed : ~C13_AsciiVariant(extension, e)) => answer = NoCategory

\* categorize was asked about JpG with the default configuration and
\* answered Images.
C13_Witness ==
  /\ config = "default"
  /\ extension = <<"J","p","G">>
  /\ answer = Images

\* categorize was asked about jPg with a configuration that lists JPG in one
\* category and jpg in another, and about the empty string.
C13_WitnessOverlap ==
  /\ config = "custom reordered"
  /\ extension = <<"j","P","g">>
  /\ answer = Texts

C13_WitnessEmpty == C13_Answered /\ extension = <<>> /\ answer = NoCategory

\* -------------------------------------------------------------------- C14
\* The step in which the rename failed, the copy succeeded and the removal
\* of the source failed.
C14_RemoveFailed == faults' = Append(faults, "remove_file")

\* After that step the file is at its source and at its destination.
C14_AtBoth ==
  /\ file_path \in DOMAIN tree' /\ tree'[file_path] = tree[file_path]
  /\ dest_file \in DOMAIN tree'
  /\ tree'[dest_file].kind = "file"
  /\ tree'[dest_file].data = tree[file_path].data
  /\ tree'[dest_file].size = tree[file_path].size

\* C14 as stated: the step counts the file as moved, not as an error.
C14_StepAsStated ==
  C14_RemoveFailed =>
    /\ stats'.moved = stats.moved + 1
    /\ stats'.errors = stats.errors
    /\ C14_AtBoth
C14_AsStated == [][C14_StepAsStated]_vars

\* The amended step: the error of remove_file is returned by move_file, so
\* the file is counted as an error and not as moved, gets no log line, and
\* the run goes on with the next file.
C14_Step ==
  C14_RemoveFailed =>
    /\ stats' = [stats EXCEPT !.errors = @ + 1]
    /\ log_file' = log_file
    /\ C14_AtBoth
    /\ pc' = "loop" /\ i' = i + 1

\* A file whose removal failed stays at both places for the rest of the run.
C14_StaysAtBoth ==
  \A k \in Processed :
    (outcomes[k].kind = "error" /\ outcomes[k].e = "remove_file") =>
      /\ files[k] \in DOMAIN tree /\ tree[files[k]] = tree0[files[k]]
      /\ outcomes[k].other \in DOMAIN tree
      /\ tree[outcomes[k].other].data = files[k]

\* C14, amended: when the rename fails, the copy succeeds and the removal of
\* the source fails, organize counts the file as an error, not as moved,
\* and the file exists at both source and destination.
C14_RemoveFailureIsAnError == [][C14_Step]_vars /\ []C14_StaysAtBoth

\* A run returned with one error whose file is at both places, after it had
\* moved another file.
C14_Witness ==
  /\ Returned
  /\ result.stats.errors = 1 /\ result.stats.moved >= 1
  /\ \E k \in Processed :
       /\ outcomes[k].kind = "error" /\ outcomes[k].e = "remove_file"
       /\ files[k] \in DOMAIN tree
       /\ outcomes[k].other \in DOMAIN tree

\* -------------------------------------------------------------------- C15
\* C15: a step of the file loop of a non-dry run that aborts organize is a
\* failed metadata read; a step at the move step that does not move the
\* file adds one to errors and goes on with the next file.
C15_Step ==
  (pc = "loop" /\ ~opts.dry_run) =>
    /\ pc' = "aborted" => result' = Err("metadata")
    /\ (RealMove /\ result' # Err("metadata") /\ stats'.moved = stats.moved) =>
         /\ stats'.errors = stats.errors + 1
         /\ pc' = "loop" /\ i' = i + 1
C15_OnlyMetadataAborts == [][C15_Step]_vars

\* -------------------------------------------------------------------- C16
\* This is the second run, after a run that returned with errors = 0, and
\* duplicate detection is off.
C16_SecondRun ==
  /\ previous # Running
  /\ previous.result.stats.errors = 0
  /\ ~opts.dry_run
  /\ ~opts.find_duplicates

\* C16: in the second run no file is moved, the tree stays as the first run
\* left it, and no discovered file lies inside a category-named folder.
C16_SecondRunMovesNothing ==
  C16_SecondRun =>
    /\ stats.moved = 0
    /\ tree = tree0
    /\ \A k \in Processed : outcomes[k].kind \in {"junk", "no extension", "no category"}
    /\ \A k \in 1..Len(files) :
         \A j \in 1..(Len(files[k]) - 1) :
           files[k][j] \notin CategoryNames(Categories(config))
    /\ Returned => result.stats.moved = 0

\* The second run returned after a first run that had moved two files, one
\* of them under a suffixed name, and left a third one; it found that file
\* again and skipped it.
C16_Witness ==
  /\ C16_SecondRun
  /\ Returned
  /\ previous.result.stats.moved = 2
  /\ \E p \in DOMAIN tree : Len(p) > 1 /\ p[1] = Images /\ FileName(p) \notin {AJpg, Sub, Deep}
  /\ Len(outcomes) = 1
  /\ result.stats = [moved |-> 0, duplicates |-> 0, skipped |-> 1, errors |-> 0]

\* With duplicate detection on, the second run moves the file the first run
\* had flagged as a duplicate.
C16_WitnessDuplicates ==
  /\ previous # Running /\ opts.find_duplicates
  /\ previous.result.stats.duplicates = 1
  /\ Returned /\ result.stats.moved = 1

\* -------------------------------------------------------------------- C17
C17_Counters == {"moved", "duplicates", "skipped", "errors"}

\* No counter gets smaller in a step.
C17_Grows == \A f \in C17_Counters : stats'[f] >= stats[f]

\* A step that finishes the handling of a file leaves the counters alone
\* when the file is junk and otherwise adds one to exactly one counter; any
\* other step leaves the counters alone.
C17_OnePerFile ==
  IF pc = "loop" /\ i' = i + 1
    THEN IF JunkName(FileName(files[i]))
           THEN stats' = stats
           ELSE \E f \in C17_Counters : stats' = [stats EXCEPT ![f] = @ + 1]
    ELSE stats' = stats

\* When organize returns normally, every discovered file was handled once,
\* in order, and the counters add up to the discovered files that are not
\* junk.
C17_AllCounted ==
  Returned =>
    /\ Len(outcomes) = Len(files)
    /\ \A k \in 1..Len(files) : outcomes[k].src = files[k]
    /\ \A k \in 1..Len(files) : \A j \in 1..Len(files) : files[k] = files[j] => k = j
    /\ Total(result.stats)
         = Cardinality({k \in 1..Len(files) : ~JunkName(FileName(files[k]))})

\* C17: every counter only grows, every handled non-junk file adds one to
\* exactly one counter, and on a normal return the counters add up to the
\* number of discovered files that are not junk.
C17_CountersAccount ==
  /\ [][C17_Grows /\ C17_OnePerFile]_vars
  /\ []C17_AllCounted

\* A run returned after it handled a junk file, a duplicate and a moved file.
C17_Witness ==
  /\ Returned
  /\ Len(files) = 3
  /\ \E k \in Processed : outcomes[k].kind = "junk"
  /\ result.stats = [moved |-> 1, duplicates |-> 1, skipped |-> 0, errors |-> 0]

\* -------------------------------------------------------------------- C18
\* A dry run returned, then a non-dry run from the same tree with the same
\* configuration and flags returned too.
C18_BothReturned ==
  /\ previous # Running
  /\ previous.result.tag = "Ok"
  /\ ~opts.dry_run
  /\ Returned

\* How a run classified a file: a file the dry run previews is a file the
\* non-dry run moves or fails to move.
C18_Classified(o) ==
  IF o.kind \in {"preview", "moved", "error"} THEN "move" ELSE o.kind

\* C18: when a dry run and a non-dry run from the same tree, configuration
\* and flags both return, they handled the same files in the same order and
\* classified each the same way, they return the same duplicates and skipped
\* counters, and the dry run's moved is the non-dry run's moved + errors.
C18_SameClassification ==
  C18_BothReturned =>
    /\ Len(previous.outcomes) = Len(outcomes)
    /\ \A k \in Processed :
         /\ previous.outcomes[k].src = outcomes[k].src
         /\ C18_Classified(previous.outcomes[k]) = C18_Classified(outcomes[k])
    /\ previous.result.stats.duplicates = result.stats.duplicates
    /\ previous.result.stats.skipped = result.stats.skipped
    /\ previous.result.stats.moved = result.stats.moved + result.stats.errors
    /\ previous.result.stats.errors = 0

\* Both runs returned; the dry run counted two moves and a duplicate, the
\* non-dry run moved one file and failed on the other.
C18_Witness ==
  /\ C18_BothReturned
  /\ previous.result.stats = [moved |-> 2, duplicates |-> 1, skipped |-> 0, errors |-> 0]
  /\ result.stats = [moved |-> 1, duplicates |-> 1, skipped |-> 0, errors |-> 1]

\* Both runs returned and skipped a file each.
C18_WitnessSkipped ==
  /\ C18_BothReturned
  /\ result.stats.skipped = 1
  /\ result.stats.moved = 2

\* -------------------------------------------------------------------- C19
\* C19: for every file the dry run counted as moved and the non-dry run from
\* the same tree, configuration and flags moved, with no I/O failure in
\* either run, the destination the dry run reported is the path the file was
\* moved to.
C19_PreviewIsWhereItGoes ==
  (C18_BothReturned /\ faults = <<>>) =>
    \A k \in Processed :
      (previous.outcomes[k].kind = "preview" /\ outcomes[k].kind = "moved")
        => /\ previous.outcomes[k].other = outcomes[k].other
           /\ IsFile(tree, outcomes[k].other)

====
